---- MODULE Spec2Model ----
\* Verification model of tools/build_atlases.py: the filename safety predicate,
\* the slot validator, the grid generator / config loader, the resize-to-cover
\* geometry, the atlas compositor and the folder orchestrator.
EXTENDS Integers, Sequences, FiniteSets, TLC

VARIABLES
    cfg,        \* validate_slots: the config dict handed to the validator
    verdict,    \* validate_slots: <<"pending">>, <<"ok">> or the raised reason
    raw,        \* load_config: the folder's config document
    loaded,     \* load_config: <<>> or <<the returned or raised result>>
    fitIn,      \* resize-to-cover: [w_img, h_img, w_slot, h_slot]
    fitOut,     \* resize-to-cover: <<>> or <<the computed geometry>>
    folder,     \* build_atlas: the contents of the source folder
    built,      \* build_atlas: <<>> or <<the outcome of the build>>
    fs,         \* main: the source tree (root state and atlas folders)
    pc,         \* main: control point
    queue,      \* main: atlas_folders still to be built, in order
    started,    \* main: folders whose build was started, in order
    pngs,       \* main: folders whose atlas image was written
    jsons,      \* main: folders whose manifest was written
    exitCode    \* main: process exit code, -1 while running

vars == <<cfg, verdict, raw, loaded, fitIn, fitOut, folder, built,
          fs, pc, queue, started, pngs, jsons, exitCode>>

\* ---------------------------------------------------------------- constants
MAX_CANVAS == 2048
DEFAULT_CANVAS == 2048
DEFAULT_SLOT == 512
DEFAULT_COLS == 4
DEFAULT_ROWS == 4

\* ------------------------------------------------------------ Python values
\* A Python value is a tagged tuple so that values of different types can be
\* told apart: <<"none">>, <<"int", n>>, <<"str", chars>>.
None == <<"none">>
I(n) == <<"int", n>>
S(chars) == <<"str", chars>>
IsInt(v) == v[1] = "int"
IsStr(v) == v[1] = "str"
IsNone(v) == v[1] = "none"
Val(v) == v[2]

Max(a, b) == IF a >= b THEN a ELSE b

\* str(n) for n >= 0, as a sequence of characters
DigitChar(d) == <<"0", "1", "2", "3", "4", "5", "6", "7", "8", "9">>[d + 1]
RECURSIVE Str(_)
Str(n) == IF n < 10 THEN <<DigitChar(n)>> ELSE Str(n \div 10) \o <<DigitChar(n % 10)>>

\* f"{n}.png"
PngName(n) == Str(n) \o <<".", "p", "n", "g">>

\* substring test: sub occurs in s
Contains(s, sub) ==
    \E k \in 1..(Len(s) - Len(sub) + 1) : SubSeq(s, k, k + Len(sub) - 1) = sub

StartsWith(s, pre) == Len(s) >= Len(pre) /\ SubSeq(s, 1, Len(pre)) = pre

\* ------------------------------------------------------- is_safe_filename
is_safe_filename_nodots(name) ==
    IF ~IsStr(name) \/ (IsStr(name) /\ Val(name) = <<>>) THEN FALSE
    ELSE IF StartsWith(Val(name), <<"/">>) \/ StartsWith(Val(name), <<"\\">>) THEN FALSE
    ELSE IF Contains(Val(name), <<"/">>) \/ Contains(Val(name), <<"\\">>) THEN FALSE
    ELSE TRUE

is_safe_filename(name) ==
    IF ~IsStr(name) \/ (IsStr(name) /\ Val(name) = <<>>) THEN FALSE
    ELSE IF StartsWith(Val(name), <<"/">>) \/ StartsWith(Val(name), <<"\\">>) THEN FALSE
    ELSE IF Contains(Val(name), <<".", ".">>) THEN FALSE
    ELSE IF Contains(Val(name), <<"/">>) \/ Contains(Val(name), <<"\\">>) THEN FALSE
    ELSE TRUE

\* ----------------------------------------------------------- validate_slots
\* The reason raised for one slot, given the indices seen so far; <<"ok">> when
\* the slot passes every check.  Checks are in the order of the code.
FirstNonInt(s) ==
    IF ~IsInt(s.x) THEN "x" ELSE IF ~IsInt(s.y) THEN "y"
    ELSE IF ~IsInt(s.w) THEN "w" ELSE IF ~IsInt(s.h) THEN "h" ELSE ""

check_slot_intfirst(s, seen, canvas_w, canvas_h) ==
    IF FirstNonInt(s) # "" /\ IsInt(s.index) THEN <<"prop_not_int", Val(s.index), FirstNonInt(s)>>
    ELSE IF ~IsInt(s.index) \/ (IsInt(s.index) /\ Val(s.index) < 1) THEN <<"index_invalid">>
    ELSE IF Val(s.index) \in seen THEN <<"duplicate_index", Val(s.index)>>
    ELSE IF Val(s.w) <= 0 \/ Val(s.h) <= 0 THEN <<"size_not_positive", Val(s.index)>>
    ELSE IF Val(s.x) < 0 \/ Val(s.y) < 0 \/ Val(s.x) + Val(s.w) > canvas_w
            \/ Val(s.y) + Val(s.h) > canvas_h THEN <<"bounds", Val(s.index)>>
    ELSE IF ~IsNone(s.filename) /\ ~is_safe_filename(s.filename)
        THEN <<"unsafe_filename", Val(s.index)>>
    ELSE <<"ok">>

check_slot_offbyone(s, seen, canvas_w, canvas_h) ==
    IF ~IsInt(s.index) \/ (IsInt(s.index) /\ Val(s.index) < 1) THEN <<"index_invalid">>
    ELSE IF Val(s.index) \in seen THEN <<"duplicate_index", Val(s.index)>>
    ELSE IF FirstNonInt(s) # "" THEN <<"prop_not_int", Val(s.index), FirstNonInt(s)>>
    ELSE IF Val(s.w) <= 0 \/ Val(s.h) <= 0 THEN <<"size_not_positive", Val(s.index)>>
    ELSE IF Val(s.x) < 0 \/ Val(s.y) < 0 \/ Val(s.x) + Val(s.w) >= canvas_w
            \/ Val(s.y) + Val(s.h) > canvas_h THEN <<"bounds", Val(s.index)>>
    ELSE IF ~IsNone(s.filename) /\ ~is_safe_filename(s.filename)
        THEN <<"unsafe_filename", Val(s.index)>>
    ELSE <<"ok">>

check_slot(s, seen, canvas_w, canvas_h) ==
    IF ~IsInt(s.index) \/ (IsInt(s.index) /\ Val(s.index) < 1) THEN <<"index_invalid">>
    ELSE IF Val(s.index) \in seen THEN <<"duplicate_index", Val(s.index)>>
    ELSE IF FirstNonInt(s) # "" THEN <<"prop_not_int", Val(s.index), FirstNonInt(s)>>
    ELSE IF Val(s.w) <= 0 \/ Val(s.h) <= 0 THEN <<"size_not_positive", Val(s.index)>>
    ELSE IF Val(s.x) < 0 \/ Val(s.y) < 0 \/ Val(s.x) + Val(s.w) > canvas_w
            \/ Val(s.y) + Val(s.h) > canvas_h THEN <<"bounds", Val(s.index)>>
    ELSE IF ~IsNone(s.filename) /\ ~is_safe_filename(s.filename)
        THEN <<"unsafe_filename", Val(s.index)>>
    ELSE <<"ok">>

\* the for-loop over cfg["slots"], from position k with seen_indices = seen
RECURSIVE validate_loop(_, _, _, _, _)
validate_loop(slots, k, seen, canvas_w, canvas_h) ==
    IF k > Len(slots) THEN <<"ok">>
    ELSE LET r == check_slot(slots[k], seen, canvas_w, canvas_h)
         IN IF r # <<"ok">> THEN r
            ELSE validate_loop(slots, k + 1, seen \cup {Val(slots[k].index)},
                               canvas_w, canvas_h)

validate_slots(c) ==
    IF ~IsInt(c.canvas_width) \/ ~IsInt(c.canvas_height) THEN <<"canvas_not_int">>
    ELSE IF Val(c.canvas_width) <= 0 \/ Val(c.canvas_height) <= 0
        THEN <<"canvas_not_positive">>
    ELSE IF Val(c.canvas_width) > MAX_CANVAS \/ Val(c.canvas_height) > MAX_CANVAS
        THEN <<"canvas_too_large">>
    ELSE IF Len(c.slots) = 0 THEN <<"slots_empty">>
    ELSE validate_loop(c.slots, 1, {}, Val(c.canvas_width), Val(c.canvas_height))

\* ----------------------------------------------------- generate_grid_slots
\* Python's floor division and modulo (the divisor may be negative)
PyDiv(a, b) == IF b > 0 THEN a \div b ELSE (-a) \div (-b)
PyMod(a, b) == a - b * PyDiv(a, b)

grid_slot_colmajor(i, cols, rows, slot_w, slot_h) ==
    [index |-> I(i + 1),
     x |-> I(PyDiv(i, cols) * slot_w),
     y |-> I(PyMod(i, cols) * slot_h),
     w |-> I(slot_w), h |-> I(slot_h),
     filename |-> S(PngName(i + 1))]

\* the dict appended for loop value i
grid_slot(i, cols, rows, slot_w, slot_h) ==
    [index |-> I(i + 1),
     x |-> I(PyMod(i, cols) * slot_w),
     y |-> I(PyDiv(i, cols) * slot_h),
     w |-> I(slot_w), h |-> I(slot_h),
     filename |-> S(PngName(i + 1))]

\* range(rows * cols) is empty when the product is not positive
generate_grid_slots(cols, rows, slot_w, slot_h) ==
    [k \in 1..(IF rows * cols > 0 THEN rows * cols ELSE 0) |->
        grid_slot(k - 1, cols, rows, slot_w, slot_h)]

\* -------------------------------------------------------------- load_config
\* JSON values of config.json: None (null), I(n), S(chars), <<"float", n, d>>
\* (the number n/d, d > 0), <<"list", items>>, and Missing for an absent key.
Missing == <<"missing">>
IsMissing(v) == v[1] = "missing"
IsList(v) == v[1] = "list"
IsFloat(v) == v[1] = "float"
Raise(exc, why) == <<"raise", exc, why>>
Raised(r) == r[1] = "raise"

Digits == {"0", "1", "2", "3", "4", "5", "6", "7", "8", "9"}
DigitVal(c) == CHOOSE d \in 0..9 : DigitChar(d) = c
RECURSIVE ParseDigits(_)
ParseDigits(cs) ==
    IF Len(cs) = 0 THEN 0
    ELSE 10 * ParseDigits(SubSeq(cs, 1, Len(cs) - 1)) + DigitVal(cs[Len(cs)])

\* int(v): integers pass, floats truncate toward zero, digit strings parse,
\* None is a TypeError, any other string a ValueError
int(v) ==
    IF IsInt(v) THEN v
    ELSE IF IsFloat(v)
        THEN I(IF v[2] >= 0 THEN v[2] \div v[3] ELSE -((-v[2]) \div v[3]))
    ELSE IF IsStr(v)
        THEN IF Val(v) # <<>> /\ \A k \in 1..Len(Val(v)) : Val(v)[k] \in Digits
             THEN I(ParseDigits(Val(v)))
             ELSE Raise("ValueError", "int")
    ELSE Raise("TypeError", "int")

\* raw.get(key, default)
Get(v, default) == IF IsMissing(v) THEN default ELSE v

\* s[key] followed by int(): a missing key is a KeyError
IntOfKey(v) == IF IsMissing(v) THEN Raise("KeyError", "slot") ELSE int(v)

\* the dict built for one entry of raw["slots"], or the first exception
normalize_slot(s) ==
    LET idx == IF IsMissing(s.index) THEN None ELSE int(s.index)
        x == IntOfKey(s.x)
        y == IntOfKey(s.y)
        w == IntOfKey(s.w)
        h == IntOfKey(s.h)
    IN IF Raised(idx) THEN idx
       ELSE IF Raised(x) THEN x
       ELSE IF Raised(y) THEN y
       ELSE IF Raised(w) THEN w
       ELSE IF Raised(h) THEN h
       ELSE <<"ok", [index |-> idx, x |-> x, y |-> y, w |-> w, h |-> h,
                     filename |-> Get(s.filename, None)]>>

\* the loop over raw["slots"]: the normalized list, or the first exception
RECURSIVE normalize_slots(_, _, _)
normalize_slots(items, k, acc) ==
    IF k > Len(items) THEN <<"ok", acc>>
    ELSE LET n == normalize_slot(items[k])
         IN IF Raised(n) THEN n ELSE normalize_slots(items, k + 1, Append(acc, n[2]))

default_config ==
    [canvas_width |-> I(DEFAULT_CANVAS), canvas_height |-> I(DEFAULT_CANVAS),
     slots |-> generate_grid_slots(DEFAULT_COLS, DEFAULT_ROWS, DEFAULT_SLOT, DEFAULT_SLOT)]

validated(c) ==
    LET v == validate_slots(c)
    IN IF v = <<"ok">> THEN <<"ok", c>> ELSE Raise("ValueError", v[1])

load_explicit(doc) ==
    LET slots == normalize_slots(doc.slots[2], 1, <<>>)
        canvas_w == int(Get(doc.canvas_width, I(DEFAULT_CANVAS)))
        canvas_h == int(Get(doc.canvas_height, I(DEFAULT_CANVAS)))
    IN IF Raised(slots) THEN slots
       ELSE IF Raised(canvas_w) THEN canvas_w
       ELSE IF Raised(canvas_h) THEN canvas_h
       ELSE validated([canvas_width |-> canvas_w, canvas_height |-> canvas_h,
                       slots |-> slots[2]])

load_grid(doc) ==
    LET cols == int(Get(doc.cols, I(DEFAULT_COLS)))
        rows == int(Get(doc.rows, I(DEFAULT_ROWS)))
        slot_w == int(Get(doc.slot_width, I(DEFAULT_SLOT)))
        slot_h == int(Get(doc.slot_height, I(DEFAULT_SLOT)))
    IN IF Raised(cols) THEN cols
       ELSE IF Raised(rows) THEN rows
       ELSE IF Raised(slot_w) THEN slot_w
       ELSE IF Raised(slot_h) THEN slot_h
       ELSE LET canvas_w == int(Get(doc.canvas_width, I(Val(cols) * Val(slot_w))))
                canvas_h == int(Get(doc.canvas_height, I(Val(rows) * Val(slot_h))))
            IN IF Raised(canvas_w) THEN canvas_w
               ELSE IF Raised(canvas_h) THEN canvas_h
               ELSE IF Val(canvas_w) > MAX_CANVAS \/ Val(canvas_h) > MAX_CANVAS
                   THEN Raise("ValueError", "generated_canvas_too_large")
               ELSE validated([canvas_width |-> canvas_w, canvas_height |-> canvas_h,
                               slots |-> generate_grid_slots(Val(cols), Val(rows),
                                                             Val(slot_w), Val(slot_h))])

\* doc.kind: "absent" (no config.json), "unparseable" (open or json.load
\* fails), "nonobject" (valid JSON that is not an object), "object"
load_config(doc) ==
    IF doc.kind = "absent" THEN <<"ok", default_config>>
    ELSE IF doc.kind = "unparseable" THEN Raise("ValueError", "parse")
    ELSE IF doc.kind = "nonobject" THEN Raise("AttributeError", "get")
    ELSE IF IsList(doc.slots) THEN load_explicit(doc)
    ELSE load_grid(doc)

\* ------------------------------------------- resize-to-cover + center-crop
\* scale = max(w_slot / w_img, h_slot / h_img), kept as the exact fraction
\* <<numerator, denominator>>
contain_scale(w_img, h_img, w_slot, h_slot) ==
    IF w_slot * h_img <= h_slot * w_img THEN <<w_slot, w_img>> ELSE <<h_slot, h_img>>

cover_scale(w_img, h_img, w_slot, h_slot) ==
    IF w_slot * h_img >= h_slot * w_img THEN <<w_slot, w_img>> ELSE <<h_slot, h_img>>

\* int(round(n * scale)).  The product is a binary float: away from a tie it
\* rounds to the nearest integer; at an exact tie k + 1/2 the float product may
\* land on either side of the tie or on it, so either neighbour can result
\* (tieUp chooses).
resized(n, scale, tieUp) ==
    LET p == n * scale[1]
        q == p \div scale[2]
        r == p % scale[2]
    IN IF 2 * r < scale[2] THEN q
       ELSE IF 2 * r > scale[2] THEN q + 1
       ELSE IF tieUp THEN q + 1 ELSE q

crop_offset_nohalf(new, slot) == new - slot

\* left = (new_w - w_slot) // 2, top = (new_h - h_slot) // 2
crop_offset(new, slot) == (new - slot) \div 2

fit(w_img, h_img, w_slot, h_slot, tieUp) ==
    LET scale == cover_scale(w_img, h_img, w_slot, h_slot)
        new_w == resized(w_img, scale, tieUp)
        new_h == resized(h_img, scale, tieUp)
    IN [scale |-> scale, new_w |-> new_w, new_h |-> new_h,
        left |-> crop_offset(new_w, w_slot), top |-> crop_offset(new_h, h_slot)]

\* -------------------------------------------------------------- build_atlas
\* A file of the source folder: absent, present but not decodable, or an image
\* of size w x h that is fully opaque or has transparent pixels.
Absent == [kind |-> "absent", w |-> 0, h |-> 0, alpha |-> "none"]
Corrupt == [kind |-> "corrupt", w |-> 0, h |-> 0, alpha |-> "none"]
Img(w, h, alpha) == [kind |-> "image", w |-> w, h |-> h, alpha |-> alpha]

PlaceholderName == <<"p", "l", "a", "c", "e", "h", "o", "l", "d", "e", "r", ".", "p", "n", "g">>

\* os.path.isfile / safe_open_image on <src_folder>/<name>
FileAt(f, name) ==
    IF name = PlaceholderName THEN f.placeholder
    ELSE IF name \in DOMAIN f.files THEN f.files[name]
    ELSE Absent

\* slot.get("filename") or f"{idx}.png"
Falsy(v) == IsNone(v) \/ (IsStr(v) /\ Val(v) = <<>>) \/ (IsInt(v) /\ Val(v) = 0)
slot_filename(slot) ==
    IF Falsy(slot.filename) THEN S(PngName(Val(slot.index))) ELSE slot.filename

\* sorted(cfg["slots"], key=index): stable insertion sort
RECURSIVE insert_sorted(_, _)
insert_sorted(sorted, s) ==
    IF sorted = <<>> THEN <<s>>
    ELSE IF Val(sorted[Len(sorted)].index) <= Val(s.index) THEN Append(sorted, s)
    ELSE Append(insert_sorted(SubSeq(sorted, 1, Len(sorted) - 1), s), sorted[Len(sorted)])

RECURSIVE sort_from(_, _, _)
sort_from(slots, k, acc) ==
    IF k > Len(slots) THEN acc ELSE sort_from(slots, k + 1, insert_sorted(acc, slots[k]))

sort_slots_listed(slots) == slots

sort_slots(slots) == sort_from(slots, 1, <<>>)

\* the image and the recorded source of a slot whose file is `file`
resolve_source_fallback(file, placeholder, filename) ==
    IF file.kind = "image" THEN <<"ok", file, filename>>
    ELSE IF placeholder.kind = "image" THEN <<"ok", placeholder, S(PlaceholderName)>>
    ELSE IF file.kind = "corrupt" THEN Raise("RuntimeError", "open_source")
    ELSE <<"ok", Absent, None>>

resolve_source(file, placeholder, filename) ==
    IF file.kind # "absent"
        THEN IF file.kind = "corrupt" THEN Raise("RuntimeError", "open_source")
             ELSE <<"ok", file, filename>>
    ELSE IF placeholder.kind = "image" THEN <<"ok", placeholder, S(PlaceholderName)>>
    ELSE <<"ok", Absent, None>>

\* mapping[key] = entry on an insertion-ordered dict
DictSet(mapping, entry) ==
    IF \E k \in 1..Len(mapping) : mapping[k].key = entry.key
    THEN [k \in 1..Len(mapping) |->
             IF mapping[k].key = entry.key THEN entry ELSE mapping[k]]
    ELSE Append(mapping, entry)

\* the paste of one fitted image: the slot rectangle, the crop window inside
\* the resized image and the image's alpha
PasteOp(slot, img, tieUp) ==
    LET g == fit(img.w, img.h, Val(slot.w), Val(slot.h), tieUp)
    IN [idx |-> Val(slot.index), x |-> Val(slot.x), y |-> Val(slot.y),
        w |-> Val(slot.w), h |-> Val(slot.h), left |-> g.left, top |-> g.top,
        new_w |-> g.new_w, new_h |-> g.new_h, alpha |-> img.alpha]

\* the loop over the sorted slots from position k; st carries the paste list
\* of the canvas, the mapping and the file names tested with os.path.isfile
RECURSIVE paint_slots(_, _, _, _, _)
paint_slots(f, slots, k, st, tieUp) ==
    IF k > Len(slots) THEN [st EXCEPT !.status = "ok"]
    ELSE LET slot == slots[k]
             filename == slot_filename(slot)
         IN IF ~is_safe_filename(filename)
            THEN [st EXCEPT !.status = "raise", !.exc = "ValueError", !.why = "unsafe_filename"]
            ELSE LET r == resolve_source(FileAt(f, Val(filename)), f.placeholder, filename)
                     probed == st.probed \cup {Val(filename)}
                 IN IF Raised(r)
                    THEN [st EXCEPT !.status = "raise", !.exc = r[2], !.why = r[3],
                                    !.probed = probed]
                    ELSE paint_slots(f, slots, k + 1,
                            [st EXCEPT
                                !.probed = probed,
                                !.ops = IF r[2].kind = "image"
                                        THEN Append(st.ops, PasteOp(slot, r[2], tieUp))
                                        ELSE st.ops,
                                !.mapping = DictSet(st.mapping,
                                    [key |-> Str(Val(slot.index)), x |-> Val(slot.x),
                                     y |-> Val(slot.y), w |-> Val(slot.w),
                                     h |-> Val(slot.h), source |-> r[3]])],
                            tieUp)

NotBuilt ==
    [status |-> "running", exc |-> "", why |-> "", width |-> 0, height |-> 0,
     ops |-> <<>>, mapping |-> <<>>, probed |-> {}, png |-> FALSE, json |-> FALSE]

\* f.io: "ok", or the file operation that fails with an OSError
build_atlas(f, tieUp) ==
    IF f.io = "makedirs_fails"
    THEN [NotBuilt EXCEPT !.status = "raise", !.exc = "OSError", !.why = "makedirs"]
    ELSE LET ld == load_config(f.config)
         IN IF Raised(ld)
            THEN [NotBuilt EXCEPT !.status = "raise", !.exc = ld[2], !.why = ld[3]]
            ELSE IF f.placeholder.kind = "corrupt"
            THEN [NotBuilt EXCEPT !.status = "raise", !.exc = "RuntimeError",
                                  !.why = "open_placeholder"]
            ELSE LET painted ==
                         paint_slots(f, sort_slots(ld[2].slots), 1,
                                     [NotBuilt EXCEPT !.width = Val(ld[2].canvas_width),
                                                      !.height = Val(ld[2].canvas_height)],
                                     tieUp)
                 IN IF painted.status = "raise" THEN painted
                    ELSE IF f.io = "save_png_fails"
                    THEN [painted EXCEPT !.status = "raise", !.exc = "OSError",
                                         !.why = "save_png"]
                    ELSE IF f.io = "write_json_fails"
                    THEN [painted EXCEPT !.status = "raise", !.exc = "OSError",
                                         !.why = "write_json", !.png = TRUE]
                    ELSE [painted EXCEPT !.png = TRUE, !.json = TRUE]

\* the value of canvas pixel (px, py): the index of the slot whose paste last
\* put an opaque pixel there, 0 while transparent.  A pixel of a pasted crop is
\* opaque when it lies inside the resized image and the image is opaque there
\* (an image with transparency is taken to be opaque on its even diagonals).
OpaqueAt(op, px, py) ==
    /\ px \in op.x..(op.x + op.w - 1) /\ py \in op.y..(op.y + op.h - 1)
    /\ LET u == op.left + (px - op.x)
           v == op.top + (py - op.y)
       IN /\ u \in 0..(op.new_w - 1) /\ v \in 0..(op.new_h - 1)
          /\ op.alpha = "opaque" \/ (u + v) % 2 = 0

PixelAt(ops, px, py) ==
    LET hits == {k \in 1..Len(ops) : OpaqueAt(ops[k], px, py)}
    IN IF hits = {} THEN 0 ELSE ops[CHOOSE k \in hits : \A j \in hits : j <= k].idx

\* --------------------------------------------------------------------- main
\* name.encode('utf-8') of a name given as its sequence of code points
Utf8Char(cp) ==
    IF cp < 128 THEN <<cp>>
    ELSE IF cp < 2048 THEN <<192 + (cp \div 64), 128 + (cp % 64)>>
    ELSE IF cp < 65536
        THEN <<224 + (cp \div 4096), 128 + ((cp \div 64) % 64), 128 + (cp % 64)>>
    ELSE <<240 + (cp \div 262144), 128 + ((cp \div 4096) % 64),
           128 + ((cp \div 64) % 64), 128 + (cp % 64)>>

RECURSIVE encode_utf8(_)
encode_utf8(name) ==
    IF name = <<>> THEN <<>> ELSE Utf8Char(Head(name)) \o encode_utf8(Tail(name))

\* a <= b on bytes objects
RECURSIVE BytesLeq(_, _)
BytesLeq(a, b) ==
    IF a = <<>> THEN TRUE
    ELSE IF b = <<>> THEN FALSE
    ELSE IF Head(a) # Head(b) THEN Head(a) < Head(b)
    ELSE BytesLeq(Tail(a), Tail(b))

\* sorted(names, key=lambda x: x.encode('utf-8')): stable insertion sort
RECURSIVE insert_name(_, _)
insert_name(sorted, n) ==
    IF sorted = <<>> THEN <<n>>
    ELSE IF BytesLeq(encode_utf8(sorted[Len(sorted)]), encode_utf8(n)) THEN Append(sorted, n)
    ELSE Append(insert_name(SubSeq(sorted, 1, Len(sorted) - 1), n), sorted[Len(sorted)])

RECURSIVE sort_names_from(_, _, _)
sort_names_from(names, k, acc) ==
    IF k > Len(names) THEN acc ELSE sort_names_from(names, k + 1, insert_name(acc, names[k]))

sort_folders_listed(names) == names

sort_folders(names) == sort_names_from(names, 1, <<>>)

\* what the loop of main does after build_atlas returned or raised
after_build_continue(status) == "continue"

after_build(status) == IF status = "ok" THEN "continue" ELSE "exit_1"

\* ------------------------------------------------------------ idle values
\* Each specification below drives its own variables and leaves the others at
\* these values.
NoCfg == [canvas_width |-> None, canvas_height |-> None, slots |-> <<>>]
Pending == <<"pending">>
IdleValidate == cfg = NoCfg /\ verdict = Pending
IdleLoad == raw = <<"idle">> /\ loaded = <<>>
IdleFit == fitIn = <<"idle">> /\ fitOut = <<>>
IdleBuild == folder = <<"idle">> /\ built = <<>>
IdleMain == fs = <<"idle">> /\ pc = "idle" /\ queue = <<>> /\ started = <<>>
            /\ pngs = {} /\ jsons = {} /\ exitCode = -1
varsValidate == <<cfg, verdict>>
varsLoad == <<raw, loaded>>
varsFit == <<fitIn, fitOut>>
varsBuild == <<folder, built>>
varsMain == <<fs, pc, queue, started, pngs, jsons, exitCode>>

\* ------------------------------------------------- validator specification
MaxSlots == 2

SeqsUpTo(X, n) == UNION {[1..k -> X] : k \in 0..n}

CanvasVals == {None, I(0), I(1), I(MAX_CANVAS), I(MAX_CANVAS + 1)}
IndexVals == {None, I(0), I(1), I(2)}
PosVals == {None, I(-1), I(0), I(1)}
SizeVals == {None, I(0), I(1), I(MAX_CANVAS)}
NameVals == {None, S(<<"a">>), S(<<".", ".">>)}
\* the last slot of the list ranges over SlotVals, the slots before it over
\* HeadSlots
SlotVals == [index : IndexVals, x : PosVals, y : PosVals,
             w : SizeVals, h : SizeVals, filename : NameVals]
HeadSlots == [index : {I(1), I(2)}, x : {I(0)}, y : {I(0)},
              w : {I(1)}, h : {I(1), None}, filename : {None}]
SlotLists ==
    {<<>>} \cup {head \o <<s>> : head \in SeqsUpTo(HeadSlots, MaxSlots - 1), s \in SlotVals}

InitValidate ==
    /\ cfg \in [canvas_width : CanvasVals, canvas_height : CanvasVals, slots : SlotLists]
    /\ verdict = Pending
    /\ IdleLoad /\ IdleFit /\ IdleBuild /\ IdleMain

Validate ==
    /\ verdict = Pending
    /\ verdict' = validate_slots(cfg)
    /\ UNCHANGED <<cfg, varsLoad, varsFit, varsBuild, varsMain>>

NextValidate == Validate
SpecValidate == InitValidate /\ [][NextValidate]_vars

\* ---- C1
AllIntegers(c) ==
    /\ IsInt(c.canvas_width) /\ IsInt(c.canvas_height)
    /\ \A k \in 1..Len(c.slots) :
          LET s == c.slots[k]
          IN IsInt(s.index) /\ IsInt(s.x) /\ IsInt(s.y) /\ IsInt(s.w) /\ IsInt(s.h)
FilenamesAbsentOrSafe(c) ==
    \A k \in 1..Len(c.slots) :
        LET f == c.slots[k].filename
        IN IsNone(f) \/ (IsStr(f) /\ Val(f) # <<>> /\ ~Contains(Val(f), <<"/">>)
                         /\ ~Contains(Val(f), <<"\\">>) /\ ~Contains(Val(f), <<".", ".">>))
C1_Pre == AllIntegers(cfg) /\ Len(cfg.slots) > 0 /\ FilenamesAbsentOrSafe(cfg)

ClauseCanvas(c) ==
    /\ Val(c.canvas_width) \in 1..MAX_CANVAS
    /\ Val(c.canvas_height) \in 1..MAX_CANVAS
ClauseIndex(c) ==
    /\ \A k \in 1..Len(c.slots) : Val(c.slots[k].index) >= 1
    /\ \A j, k \in 1..Len(c.slots) : j # k => c.slots[j].index # c.slots[k].index
ClauseSize(c) ==
    \A k \in 1..Len(c.slots) : Val(c.slots[k].w) > 0 /\ Val(c.slots[k].h) > 0
ClauseBounds(c) ==
    \A k \in 1..Len(c.slots) :
        LET s == c.slots[k]
        IN /\ Val(s.x) >= 0 /\ Val(s.y) >= 0
           /\ Val(s.x) + Val(s.w) <= Val(c.canvas_width)
           /\ Val(s.y) + Val(s.h) <= Val(c.canvas_height)

\* C1: for an all-integer config with a non-empty slot list and absent or safe
\* filenames, validate_slots accepts iff the canvas, index, size and bounds
\* clauses all hold, and when exactly one clause is violated the raised reason
\* names that clause.
C1_ValidateAcceptsIffClauses ==
    (verdict # Pending /\ C1_Pre) =>
        /\ (verdict = <<"ok">>) <=>
              (ClauseCanvas(cfg) /\ ClauseIndex(cfg) /\ ClauseSize(cfg) /\ ClauseBounds(cfg))
        /\ (~ClauseCanvas(cfg) /\ ClauseIndex(cfg) /\ ClauseSize(cfg) /\ ClauseBounds(cfg))
              => verdict[1] \in {"canvas_not_positive", "canvas_too_large"}
        /\ (ClauseCanvas(cfg) /\ ~ClauseIndex(cfg) /\ ClauseSize(cfg) /\ ClauseBounds(cfg))
              => verdict[1] \in {"index_invalid", "duplicate_index"}
        /\ (ClauseCanvas(cfg) /\ ClauseIndex(cfg) /\ ~ClauseSize(cfg) /\ ClauseBounds(cfg))
              => verdict[1] = "size_not_positive"
        /\ (ClauseCanvas(cfg) /\ ClauseIndex(cfg) /\ ClauseSize(cfg) /\ ~ClauseBounds(cfg))
              => verdict[1] = "bounds"

\* a two-slot all-integer config whose only violated clause is the bounds
\* clause, in its second slot, has been rejected for its bounds
C1_Witness ==
    /\ C1_Pre /\ Len(cfg.slots) = 2
    /\ ClauseCanvas(cfg) /\ ClauseIndex(cfg) /\ ClauseSize(cfg) /\ ~ClauseBounds(cfg)
    /\ verdict = <<"bounds", Val(cfg.slots[2].index)>>

\* ---- C9
\* Whether one named check fails for slot s, prev being the indices of the
\* slots listed before it.
SlotFails(chk, s, prev, canvas_w, canvas_h) ==
    CASE chk = "index" -> ~IsInt(s.index) \/ Val(s.index) < 1
      [] chk = "all_int" -> ~IsInt(s.index) \/ FirstNonInt(s) # ""
      [] chk = "index_ge_1" -> IsInt(s.index) /\ Val(s.index) < 1
      [] chk = "duplicate" -> IsInt(s.index) /\ Val(s.index) \in prev
      [] chk = "props_int" -> FirstNonInt(s) # ""
      [] chk = "size" -> (IsInt(s.w) /\ Val(s.w) <= 0) \/ (IsInt(s.h) /\ Val(s.h) <= 0)
      [] chk = "bounds" ->
            \/ (IsInt(s.x) /\ Val(s.x) < 0) \/ (IsInt(s.y) /\ Val(s.y) < 0)
            \/ (IsInt(s.x) /\ IsInt(s.w) /\ Val(s.x) + Val(s.w) > canvas_w)
            \/ (IsInt(s.y) /\ IsInt(s.h) /\ Val(s.y) + Val(s.h) > canvas_h)
      [] chk = "filename" -> ~IsNone(s.filename) /\ ~is_safe_filename(s.filename)

\* the kind of reason a failing check is reported with
KindOf(chk, s) ==
    CASE chk = "index" -> "index_invalid"
      [] chk = "all_int" -> IF ~IsInt(s.index) THEN "index_invalid" ELSE "prop_not_int"
      [] chk = "index_ge_1" -> "index_invalid"
      [] chk = "duplicate" -> "duplicate_index"
      [] chk = "props_int" -> "prop_not_int"
      [] chk = "size" -> "size_not_positive"
      [] chk = "bounds" -> "bounds"
      [] chk = "filename" -> "unsafe_filename"

PrevIndices(slots, k) ==
    {Val(slots[j].index) : j \in {i \in 1..(k - 1) : IsInt(slots[i].index)}}

FailingChecks(order, c, k) ==
    {n \in 1..Len(order) :
        SlotFails(order[n], c.slots[k], PrevIndices(c.slots, k),
                  Val(c.canvas_width), Val(c.canvas_height))}

Least(X) == CHOOSE n \in X : \A m \in X : n <= m

\* the kind of the first failing check, the slot checks taken in `order`
FirstFailure(order, c) ==
    IF ~IsInt(c.canvas_width) \/ ~IsInt(c.canvas_height) THEN "canvas_not_int"
    ELSE IF Val(c.canvas_width) <= 0 \/ Val(c.canvas_height) <= 0 THEN "canvas_not_positive"
    ELSE IF Val(c.canvas_width) > MAX_CANVAS \/ Val(c.canvas_height) > MAX_CANVAS
        THEN "canvas_too_large"
    ELSE IF Len(c.slots) = 0 THEN "slots_empty"
    ELSE LET bad == {k \in 1..Len(c.slots) : FailingChecks(order, c, k) # {}}
         IN IF bad = {} THEN "ok"
            ELSE LET k == Least(bad)
                 IN KindOf(order[Least(FailingChecks(order, c, k))], c.slots[k])

CodeOrder == <<"index", "duplicate", "props_int", "size", "bounds", "filename">>
ClaimedOrder == <<"all_int", "index_ge_1", "duplicate", "size", "bounds", "filename">>

\* C9 as stated: validate_slots reports the first failing check in the order
\* canvas checks, slots non-empty, then per slot: all of index, x, y, w, h are
\* integers; index >= 1; index not seen before; sizes positive; bounds;
\* filename safety.
C9_ClaimedOrder ==
    verdict # Pending => verdict[1] = FirstFailure(ClaimedOrder, cfg)

\* C9 amended: validate_slots reports the first failing check in the order
\* canvas checks, slots non-empty, then per slot: index is an integer >= 1;
\* index not seen before; x, y, w, h are integers (the first non-integer one is
\* named); sizes positive; bounds; filename safety.  So a slot with a
\* non-integer x, y, w or h that repeats an earlier index is rejected for the
\* duplicate index.  validate_slots never modifies the config.
C9_CodeOrderInv ==
    verdict # Pending =>
        /\ verdict[1] = FirstFailure(CodeOrder, cfg)
        /\ verdict[1] = "prop_not_int" =>
              \E k \in 1..Len(cfg.slots) :
                  /\ verdict = <<"prop_not_int", Val(cfg.slots[k].index),
                                 FirstNonInt(cfg.slots[k])>>
                  /\ Val(cfg.slots[k].index) \notin PrevIndices(cfg.slots, k)
C9_CodeOrder == [](C9_CodeOrderInv) /\ [][cfg' = cfg]_vars

\* a slot with a non-integer field that repeats the index of the slot before
\* it has been rejected for the duplicate index
C9_Witness ==
    /\ Len(cfg.slots) = 2
    /\ cfg.slots[1].index = cfg.slots[2].index
    /\ FirstNonInt(cfg.slots[2]) # ""
    /\ verdict = <<"duplicate_index", Val(cfg.slots[2].index)>>

\* ------------------------------------------------------ fit specification
MaxDim == 6

ImgDims == (1..MaxDim) \cup {100, 200}
SlotDims == (1..MaxDim) \cup {50}

InitFit ==
    /\ fitIn \in [w_img : ImgDims, h_img : ImgDims, w_slot : SlotDims, h_slot : SlotDims]
    /\ fitOut = <<>>
    /\ IdleValidate /\ IdleLoad /\ IdleBuild /\ IdleMain

Fit ==
    /\ fitOut = <<>>
    /\ \E tieUp \in BOOLEAN :
          fitOut' = <<fit(fitIn.w_img, fitIn.h_img, fitIn.w_slot, fitIn.h_slot, tieUp)>>
    /\ UNCHANGED <<fitIn, varsValidate, varsLoad, varsBuild, varsMain>>

NextFit == Fit
SpecFit == InitFit /\ [][NextFit]_vars

Fitted == fitOut # <<>>
Is100x200Into50x50 ==
    fitIn = [w_img |-> 100, h_img |-> 200, w_slot |-> 50, h_slot |-> 50]

\* C5 as stated: a 100x200 image fit into a 50x50 slot keeps scale 1.0 and its
\* size 100x200, and is cropped at left = 25, top = 75.
C5_ScaleOne ==
    (Fitted /\ Is100x200Into50x50) =>
        /\ fitOut[1].scale[1] = fitOut[1].scale[2]
        /\ fitOut[1].new_w = 100 /\ fitOut[1].new_h = 200
        /\ fitOut[1].left = 25 /\ fitOut[1].top = 75

\* C5 amended: a 100x200 image fit into a 50x50 slot is scaled by
\* max(50/100, 50/200) = 0.5 to 50x100, and the crop window is the centered
\* 50x50 window with left = 0 and top = 25, i.e. the region (0,25)-(50,75) of
\* the resized image.
C5_ScaleHalf ==
    (Fitted /\ Is100x200Into50x50) =>
        /\ 2 * fitOut[1].scale[1] = fitOut[1].scale[2]
        /\ fitOut[1].new_w = 50 /\ fitOut[1].new_h = 100
        /\ fitOut[1].left = 0 /\ fitOut[1].top = 25
        /\ fitOut[1].left + fitIn.w_slot = 50 /\ fitOut[1].top + fitIn.h_slot = 75

C5_Witness == Fitted /\ Is100x200Into50x50

\* C8: the resized image covers the slot in both dimensions, exactly in at
\* least one of them, so the centered crop window lies inside the resized image.
C8_ResizeCovers ==
    Fitted =>
        /\ fitOut[1].scale[1] * fitIn.w_img >= fitIn.w_slot * fitOut[1].scale[2]
        /\ fitOut[1].scale[1] * fitIn.h_img >= fitIn.h_slot * fitOut[1].scale[2]
        /\ fitOut[1].new_w >= fitIn.w_slot /\ fitOut[1].new_h >= fitIn.h_slot
        /\ fitOut[1].new_w = fitIn.w_slot \/ fitOut[1].new_h = fitIn.h_slot
        /\ fitOut[1].left >= 0 /\ fitOut[1].top >= 0
        /\ fitOut[1].left + fitIn.w_slot <= fitOut[1].new_w
        /\ fitOut[1].top + fitIn.h_slot <= fitOut[1].new_h

\* an image resized at a rounding tie (3 * 1/2), cropped with a positive offset
C8_Witness ==
    /\ Fitted /\ fitIn.w_img = 2 /\ fitIn.h_img = 6 /\ fitIn.w_slot = 1 /\ fitIn.h_slot = 1
    /\ fitOut[1].new_w = 1 /\ fitOut[1].new_h = 3 /\ fitOut[1].top = 1

\* ------------------------------------------------- load_config specification
MaxGrid == 3

Doc(kind, cw, ch, slots, cols, rows, sw, sh) ==
    [kind |-> kind, canvas_width |-> cw, canvas_height |-> ch, slots |-> slots,
     cols |-> cols, rows |-> rows, slot_width |-> sw, slot_height |-> sh]
NoConfig == Doc("absent", Missing, Missing, Missing, Missing, Missing, Missing, Missing)
Unparseable == Doc("unparseable", Missing, Missing, Missing, Missing, Missing, Missing, Missing)
NonObject == Doc("nonobject", Missing, Missing, Missing, Missing, Missing, Missing, Missing)

GridCounts == {Missing, I(-1), I(0), <<"float", 5, 2>>} \cup {I(n) : n \in 1..MaxGrid}
GridSizes == {Missing, I(0), I(1), I(2), I(1000)}
GridDocs ==
    {Doc("object", cw, Missing, slots, cols, rows, sw, sh) :
        cw \in {Missing, I(2), S(<<"x">>)}, slots \in {Missing, None},
        cols \in GridCounts, rows \in GridCounts, sw \in GridSizes, sh \in GridSizes}

InitLoad ==
    /\ raw \in {NoConfig, Unparseable, NonObject} \cup GridDocs
    /\ loaded = <<>>
    /\ IdleValidate /\ IdleFit /\ IdleBuild /\ IdleMain

LoadConfig ==
    /\ loaded = <<>>
    /\ loaded' = <<load_config(raw)>>
    /\ UNCHANGED <<raw, varsValidate, varsFit, varsBuild, varsMain>>

NextLoad == LoadConfig
SpecLoad == InitLoad /\ [][NextLoad]_vars

\* ---- C6
\* the grid parameters load_config reads from the document, after defaults
GridParam(v, default) == int(Get(v, I(default)))
PositiveGrid ==
    /\ raw.kind = "object" /\ ~IsList(raw.slots)
    /\ \A p \in {GridParam(raw.cols, DEFAULT_COLS), GridParam(raw.rows, DEFAULT_ROWS),
                 GridParam(raw.slot_width, DEFAULT_SLOT),
                 GridParam(raw.slot_height, DEFAULT_SLOT)} : IsInt(p) /\ Val(p) > 0

\* slots is the row-major grid of rows x cols slots of size slot_w x slot_h
IsRowMajorGrid(slots, cols, rows, slot_w, slot_h) ==
    /\ Len(slots) = rows * cols
    /\ {Val(slots[k].index) : k \in 1..Len(slots)} = 1..(rows * cols)
    /\ \A k \in 1..Len(slots) :
          LET i == Val(slots[k].index)
          IN /\ slots[k].x = I(((i - 1) % cols) * slot_w)
             /\ slots[k].y = I(((i - 1) \div cols) * slot_h)
             /\ slots[k].w = I(slot_w) /\ slots[k].h = I(slot_h)
             /\ slots[k].filename =
                   S((IF i < 10 THEN <<>> ELSE <<DigitChar(i \div 10)>>)
                     \o <<DigitChar(i % 10), ".", "p", "n", "g">>)

SlotAt(slots, i) == slots[CHOOSE k \in 1..Len(slots) : slots[k].index = I(i)]

\* C6: without config.json load_config returns a 2048x2048 canvas with the 16
\* slots 1..16 of 512x512 in row-major order; for positive grid parameters the
\* generated grid has rows*cols slots, indices 1..rows*cols, slot i at column
\* (i-1) mod cols and row (i-1) div cols, named "<i>.png".
C6_GridLayout ==
    /\ (loaded # <<>> /\ raw = NoConfig) =>
          /\ loaded[1][1] = "ok"
          /\ loaded[1][2].canvas_width = I(2048) /\ loaded[1][2].canvas_height = I(2048)
          /\ IsRowMajorGrid(loaded[1][2].slots, 4, 4, 512, 512)
          /\ Len(loaded[1][2].slots) = 16
          /\ <<SlotAt(loaded[1][2].slots, 1).x, SlotAt(loaded[1][2].slots, 1).y>> = <<I(0), I(0)>>
          /\ <<SlotAt(loaded[1][2].slots, 5).x, SlotAt(loaded[1][2].slots, 5).y>> = <<I(0), I(512)>>
          /\ <<SlotAt(loaded[1][2].slots, 16).x, SlotAt(loaded[1][2].slots, 16).y>>
                = <<I(1536), I(1536)>>
          /\ SlotAt(loaded[1][2].slots, 16).filename = S(<<"1", "6", ".", "p", "n", "g">>)
    /\ (loaded # <<>> /\ PositiveGrid) =>
          LET cols == Val(GridParam(raw.cols, DEFAULT_COLS))
              rows == Val(GridParam(raw.rows, DEFAULT_ROWS))
              slot_w == Val(GridParam(raw.slot_width, DEFAULT_SLOT))
              slot_h == Val(GridParam(raw.slot_height, DEFAULT_SLOT))
          IN /\ IsRowMajorGrid(generate_grid_slots(cols, rows, slot_w, slot_h),
                               cols, rows, slot_w, slot_h)
             /\ loaded[1][1] = "ok" =>
                   IsRowMajorGrid(loaded[1][2].slots, cols, rows, slot_w, slot_h)

\* a 3-column, 2-row grid document has been loaded into six slots
C6_Witness ==
    /\ loaded # <<>> /\ PositiveGrid /\ loaded[1][1] = "ok"
    /\ raw.cols = I(3) /\ raw.rows = I(2) /\ raw.slot_width = I(2)
    /\ Len(loaded[1][2].slots) = 6
    /\ SlotAt(loaded[1][2].slots, 5).x = I(2) /\ SlotAt(loaded[1][2].slots, 5).y = I(1)

\* ------------------------------------------------- build_atlas specification
MaxPaint == 3
MaxNameLen == 3

Opaque == Img(1, 1, "opaque")
Holes == Img(2, 2, "holes")
FileA == <<"a">>
Folder(config, placeholder, files, io) ==
    [config |-> config, placeholder |-> placeholder, files |-> files, io |-> io]
Files(f1, f2, f3, fa) ==
    (PngName(1) :> f1) @@ (PngName(2) :> f2) @@ (PngName(3) :> f3) @@ (FileA :> fa)
SlotDoc(index, x, y, w, h, filename) ==
    [index |-> index, x |-> x, y |-> y, w |-> w, h |-> h, filename |-> filename]
Explicit(cw, ch, slots) ==
    Doc("object", cw, ch, <<"list", slots>>, Missing, Missing, Missing, Missing)

\* explicit configs on a 2x1 canvas: up to MaxPaint slots with distinct
\* indices, overlapping or not, named or not, listed in descending index
\* order, the order the sort has to reverse (C10 rebuilds every other order)
PaintSlotDocs ==
    {SlotDoc(I(i), I(g[1]), I(0), I(g[2]), I(1), g[3]) :
        i \in 1..MaxPaint,
        g \in {<<0, 1, Missing>>, <<0, 2, Missing>>, <<1, 1, Missing>>, <<0, 2, S(FileA)>>}}
PaintLists ==
    {l \in SeqsUpTo(PaintSlotDocs, MaxPaint) :
        Len(l) > 0 /\ \A j, k \in 1..Len(l) : j < k => Val(l[j].index) > Val(l[k].index)}
PaintFolders ==
    {Folder(Explicit(I(2), I(1), l), ph, Files(f1, f2, f3, Holes), "ok") :
        l \in PaintLists, ph \in {Absent, Opaque},
        f1 \in {Absent, Opaque}, f2 \in {Opaque, Holes}, f3 \in {Opaque, Corrupt}}

\* explicit configs whose filenames range over every short string
Alphabet == {"a", ".", "/", "\\"}
NameDocs == {Missing, None, I(0)} \cup {S(n) : n \in SeqsUpTo(Alphabet, MaxNameLen)}
NameFolders ==
    {Folder(Explicit(I(2), I(1), l), Absent, Files(Absent, Absent, Absent, Opaque), "ok") :
        l \in {<<SlotDoc(I(1), I(0), I(0), I(1), I(1), n1)>> : n1 \in NameDocs}
              \cup {<<SlotDoc(I(2), I(0), I(0), I(1), I(1), n2),
                      SlotDoc(I(1), I(1), I(0), I(1), I(1), n1)>> :
                        n1 \in NameDocs, n2 \in {Missing, S(<<"a">>), S(<<"/">>)}}}

\* default, grid, broken and invalid configs, broken placeholders, failing writes
OtherDocs ==
    {NoConfig, Unparseable, NonObject,
     Doc("object", Missing, Missing, Missing, I(2), I(1), I(1), I(1)),
     Doc("object", I(1), Missing, Missing, I(2), I(1), I(1), I(1)),
     Explicit(Missing, I(1), <<SlotDoc(I(1), I(0), I(0), I(1), I(1), Missing),
                               SlotDoc(I(1), I(0), I(0), I(1), I(1), Missing)>>),
     Explicit(I(2), I(1), <<SlotDoc(Missing, I(0), I(0), I(1), I(1), Missing)>>),
     Explicit(I(2), I(1), <<SlotDoc(I(1), Missing, I(0), I(1), I(1), Missing)>>),
     Explicit(I(2), I(1), <<SlotDoc(I(1), <<"float", 3, 2>>, I(0), S(<<"1">>), I(1), Missing)>>),
     Explicit(I(2), None, <<SlotDoc(I(1), I(0), I(0), I(1), I(1), Missing)>>)}
OtherFolders ==
    {Folder(d, ph, Files(f1, f2, Absent, Absent), io) :
        d \in OtherDocs, ph \in {Absent, Opaque, Holes, Corrupt},
        f1 \in {Absent, Opaque, Corrupt}, f2 \in {Absent, Holes},
        io \in {"ok", "makedirs_fails", "save_png_fails", "write_json_fails"}}

InitBuild ==
    /\ folder \in PaintFolders \cup NameFolders \cup OtherFolders
    /\ built = <<>>
    /\ IdleValidate /\ IdleLoad /\ IdleFit /\ IdleMain

BuildAtlas ==
    /\ built = <<>>
    /\ \E tieUp \in BOOLEAN : built' = <<build_atlas(folder, tieUp)>>
    /\ UNCHANGED <<folder, varsValidate, varsLoad, varsFit, varsMain>>

NextBuild == BuildAtlas
SpecBuild == InitBuild /\ [][NextBuild]_vars

Built == built # <<>>
BuiltOk == Built /\ built[1].status = "ok"
\* the config load_config hands to the compositor
LoadedCfg == load_config(folder.config)[2]
ConfigLoads == load_config(folder.config)[1] = "ok"

\* ---- C4
\* the name of the slot's source file and the source the rule resolves it to
SlotFileName(slot) ==
    IF IsStr(slot.filename) /\ Val(slot.filename) # <<>> THEN Val(slot.filename)
    ELSE Str(Val(slot.index)) \o <<".", "p", "n", "g">>
RuleSource(slot) ==
    LET file == FileAt(folder, SlotFileName(slot))
    IN IF file.kind = "image" THEN S(SlotFileName(slot))
       ELSE IF folder.placeholder.kind = "image" THEN S(PlaceholderName)
       ELSE None
HasCorruptSource(c) ==
    \E k \in 1..Len(c.slots) : FileAt(folder, SlotFileName(c.slots[k])).kind = "corrupt"

\* C4: for a validated config, an existing file that fails to decode fails the
\* build even when a placeholder was loaded; otherwise the build succeeds (if
\* the outputs can be written) and the manifest has exactly one entry per slot
\* index with the slot's x, y, w, h and source = the filename if the file
\* exists, else "placeholder.png" if a placeholder was loaded, else null.
C4_SourceResolution ==
    (Built /\ ConfigLoads /\ folder.placeholder.kind # "corrupt"
           /\ folder.io # "makedirs_fails") =>
        /\ HasCorruptSource(LoadedCfg) =>
              /\ built[1].status = "raise" /\ built[1].exc = "RuntimeError"
              /\ ~built[1].png /\ ~built[1].json
        /\ (~HasCorruptSource(LoadedCfg) /\ folder.io = "ok") => built[1].status = "ok"
        /\ built[1].status = "ok" =>
              /\ ~HasCorruptSource(LoadedCfg)
              /\ Len(built[1].mapping) = Len(LoadedCfg.slots)
              /\ \A k \in 1..Len(LoadedCfg.slots) :
                    LET slot == LoadedCfg.slots[k]
                        hits == {j \in 1..Len(built[1].mapping) :
                                    built[1].mapping[j].key = Str(Val(slot.index))}
                    IN /\ Cardinality(hits) = 1
                       /\ \A j \in hits :
                             built[1].mapping[j] =
                                [key |-> Str(Val(slot.index)), x |-> Val(slot.x),
                                 y |-> Val(slot.y), w |-> Val(slot.w), h |-> Val(slot.h),
                                 source |-> RuleSource(slot)]

\* a built atlas with three slots, one resolved to its own named file and one
\* to the placeholder
C4_Witness ==
    /\ BuiltOk /\ Len(built[1].mapping) = 3
    /\ \E i, j \in 1..3 :
          /\ built[1].mapping[i].source = S(PlaceholderName)
          /\ built[1].mapping[j].source = S(FileA)

\* ---- C7
\* non-empty string without '/', without '\' and without ".."
CharSafe(v) ==
    /\ IsStr(v) /\ Val(v) # <<>>
    /\ \A k \in 1..Len(Val(v)) : Val(v)[k] \notin {"/", "\\"}
    /\ ~\E k \in 1..(Len(Val(v)) - 1) : Val(v)[k] = "." /\ Val(v)[k + 1] = "."

IsExplicit == folder.config.kind = "object" /\ IsList(folder.config.slots)
\* the filename values of the slot entries of an explicit config document
ConfigNames ==
    IF IsExplicit
    THEN {folder.config.slots[2][k].filename : k \in 1..Len(folder.config.slots[2])}
    ELSE {}
HasUnsafeName == \E n \in ConfigNames : ~IsMissing(n) /\ ~IsNone(n) /\ ~CharSafe(n)

\* C7: is_safe_filename is true exactly for non-empty strings without '/',
\* '\' and ".."; build_atlas tests or opens only <folder>/<name> with such a
\* name; a config with an unsafe filename fails the build before any file is
\* resolved.
C7_SafeFilenames ==
    /\ \A n \in ConfigNames \ {Missing} : is_safe_filename(n) <=> CharSafe(n)
    /\ Built =>
          /\ \A name \in built[1].probed : is_safe_filename(S(name)) /\ CharSafe(S(name))
          /\ HasUnsafeName =>
                /\ built[1].status = "raise" /\ built[1].probed = {}
                /\ ~built[1].png /\ ~built[1].json

\* a two-slot config whose second-painted slot is named "a.." has failed
\* without any file being tested
C7_Witness ==
    /\ Built /\ S(<<"a", ".", ".">>) \in ConfigNames /\ Cardinality(ConfigNames) = 2
    /\ built[1].status = "raise" /\ built[1].probed = {}

\* ---- C10
RuleImage(slot) ==
    LET file == FileAt(folder, SlotFileName(slot))
    IN IF file.kind = "image" THEN file
       ELSE IF folder.placeholder.kind = "image" THEN folder.placeholder
       ELSE Absent
ResolvesOpaque(slot) == RuleImage(slot).kind = "image" /\ RuleImage(slot).alpha = "opaque"
Min(a, b) == IF a <= b THEN a ELSE b
\* the canvas pixels two slots share
Overlap(a, b) ==
    (Max(Val(a.x), Val(b.x))..(Min(Val(a.x) + Val(a.w), Val(b.x) + Val(b.w)) - 1))
    \X (Max(Val(a.y), Val(b.y))..(Min(Val(a.y) + Val(a.h), Val(b.y) + Val(b.h)) - 1))
Region(a) == Overlap(a, a)
SlotSet == {LoadedCfg.slots[k] : k \in 1..Len(LoadedCfg.slots)}
OpaquePairs ==
    {ab \in SlotSet \X SlotSet :
        Val(ab[1].index) < Val(ab[2].index) /\ ResolvesOpaque(ab[1]) /\ ResolvesOpaque(ab[2])}
FinalPixel(p) == PixelAt(built[1].ops, p[1], p[2])

\* the folder with the slot list of its explicit config document reordered
Reordered(perm) ==
    [folder EXCEPT !.config.slots =
        <<"list", [k \in 1..Len(folder.config.slots[2]) |-> folder.config.slots[2][perm[k]]]>>]

\* C10 as stated: where two slots that both resolve to a fully opaque image
\* overlap, every pixel ends with the value painted by the larger-index slot.
C10_LargerOfTwoWins ==
    BuiltOk => \A ab \in OpaquePairs : \A p \in Overlap(ab[1], ab[2]) :
                   FinalPixel(p) = Val(ab[2].index)

\* C10 amended: slots are pasted in strictly ascending index order whatever
\* the listed order; where two slots that both resolve to a fully opaque image
\* overlap, every pixel ends with the value painted by the last slot that
\* painted it, which is the larger-index slot of the two unless a slot with a
\* still larger index paints that pixel too, and never the smaller-index one; a
\* slot left transparent changes no pixel; permuting the slot list of an
\* explicit config changes neither the canvas nor the manifest.
C10_PaintOrder ==
    BuiltOk =>
        /\ \A j, k \in 1..Len(built[1].ops) :
              j < k => built[1].ops[j].idx < built[1].ops[k].idx
        /\ \A ab \in OpaquePairs : \A p \in Overlap(ab[1], ab[2]) :
              /\ FinalPixel(p) >= Val(ab[2].index)
              /\ FinalPixel(p) # Val(ab[2].index) =>
                    \E c \in SlotSet :
                        /\ Val(c.index) = FinalPixel(p) /\ p \in Region(c)
                        /\ RuleImage(c).kind = "image"
        /\ \A a \in SlotSet :
              RuleImage(a).kind # "image" =>
                  /\ \A k \in 1..Len(built[1].ops) : built[1].ops[k].idx # Val(a.index)
                  /\ \A p \in Region(a) : FinalPixel(p) # Val(a.index)
        /\ IsExplicit =>
              \A perm \in Permutations(1..Len(folder.config.slots[2])) :
                  \E tieUp \in BOOLEAN : build_atlas(Reordered(perm), tieUp) = built[1]

\* three overlapping opaque slots listed in descending index order: the pixel
\* they share shows the largest index, not the larger of the first two
C10_Witness ==
    /\ BuiltOk /\ Len(LoadedCfg.slots) = 3
    /\ \A k \in 1..3 : Val(LoadedCfg.slots[k].index) = 4 - k
    /\ \A a \in SlotSet : ResolvesOpaque(a) /\ <<0, 0>> \in Region(a)
    /\ FinalPixel(<<0, 0>>) = 3

\* -------------------------------------------------------- main specification
\* atlases_src holds entries named "A", "Ab", "b" and "a-umlaut"
NameSet == {<<65>>, <<65, 98>>, <<98>>, <<228>>}

NoFiles == Files(Absent, Absent, Absent, Absent)
OneSlot == Explicit(I(2), I(1), <<SlotDoc(I(1), I(0), I(0), I(2), I(1), Missing)>>)
TwoSameIndex ==
    Explicit(I(2), I(1), <<SlotDoc(I(3), I(0), I(0), I(1), I(1), Missing),
                           SlotDoc(I(3), I(1), I(0), I(1), I(1), Missing)>>)
RunFolders ==
    {Folder(NoConfig, Absent, NoFiles, "ok"),
     Folder(OneSlot, Opaque, NoFiles, "ok"),
     Folder(Unparseable, Absent, NoFiles, "ok"),
     Folder(TwoSameIndex, Absent, NoFiles, "ok"),
     Folder(OneSlot, Opaque, Files(Corrupt, Absent, Absent, Absent), "ok"),
     Folder(OneSlot, Absent, Files(Opaque, Absent, Absent, Absent), "write_json_fails")}
Entry(kind, content) == [kind |-> kind, content |-> content]
Entries ==
    {Entry("none", Folder(NoConfig, Absent, NoFiles, "ok")),
     Entry("file", Folder(NoConfig, Absent, NoFiles, "ok"))}
    \cup {Entry("dir", f) : f \in RunFolders}
Tree(root, listing, entries) == [root |-> root, listing |-> listing, entries |-> entries]

InitMain ==
    /\ fs \in {Tree("dir", "ok", e) : e \in [NameSet -> Entries]}
              \cup {Tree(r[1], r[2], [n \in NameSet |-> e]) :
                        r \in {<<"missing", "ok">>, <<"file", "ok">>, <<"dir", "fails">>},
                        e \in Entries}
    /\ pc = "start" /\ queue = <<>> /\ started = <<>>
    /\ pngs = {} /\ jsons = {} /\ exitCode = -1
    /\ IdleValidate /\ IdleLoad /\ IdleFit /\ IdleBuild

Dirs == {n \in NameSet : fs.entries[n].kind = "dir"}
\* every order os.listdir may return the directory names in
RECURSIVE Orders(_)
Orders(names) ==
    IF names = {} THEN {<<>>}
    ELSE UNION {{<<n>> \o l : l \in Orders(names \ {n})} : n \in names}
Listings == Orders(Dirs)

\* if not os.path.isdir(SRC_DIR): sys.exit(1)
CheckRoot ==
    /\ pc = "start"
    /\ IF fs.root = "dir" THEN pc' = "list" /\ UNCHANGED exitCode
       ELSE pc' = "exit" /\ exitCode' = 1
    /\ UNCHANGED <<fs, queue, started, pngs, jsons,
                   varsValidate, varsLoad, varsFit, varsBuild>>

\* the listing, the sort, and the exit when it fails or finds no folder
ListFolders ==
    /\ pc = "list"
    /\ IF fs.listing = "fails"
       THEN pc' = "exit" /\ exitCode' = 1 /\ UNCHANGED queue
       ELSE \E l \in Listings :
               /\ queue' = sort_folders(l)
               /\ IF queue' = <<>> THEN pc' = "exit" /\ exitCode' = 0
                  ELSE pc' = "loop" /\ UNCHANGED exitCode
    /\ UNCHANGED <<fs, started, pngs, jsons, varsValidate, varsLoad, varsFit, varsBuild>>

\* one iteration of the for loop: build_atlas and the except clauses
BuildFolder ==
    /\ pc = "loop" /\ queue # <<>>
    /\ \E tieUp \in BOOLEAN, name \in {Head(queue)} :
       \E r \in {build_atlas(fs.entries[name].content, tieUp)} :
          /\ started' = Append(started, name)
          /\ pngs' = IF r.png THEN pngs \cup {name} ELSE pngs
          /\ jsons' = IF r.json THEN jsons \cup {name} ELSE jsons
          /\ IF after_build(r.status) = "continue"
             THEN queue' = Tail(queue) /\ UNCHANGED <<pc, exitCode>>
             ELSE pc' = "exit" /\ exitCode' = 1 /\ UNCHANGED queue
    /\ UNCHANGED <<fs, varsValidate, varsLoad, varsFit, varsBuild>>

\* the loop is over: main returns and the interpreter exits with 0
Finish ==
    /\ pc = "loop" /\ queue = <<>>
    /\ pc' = "exit" /\ exitCode' = 0
    /\ UNCHANGED <<fs, queue, started, pngs, jsons,
                   varsValidate, varsLoad, varsFit, varsBuild>>

NextMain == CheckRoot \/ ListFolders \/ BuildFolder \/ Finish
SpecMain == InitMain /\ [][NextMain]_vars

Exited == pc = "exit"
Content(n) == fs.entries[n].content
BuildsOk(n) == \A tieUp \in BOOLEAN : build_atlas(Content(n), tieUp).status = "ok"
Listed == fs.root = "dir" /\ fs.listing = "ok"
\* a folder in which nothing is wrong except, possibly, missing source files
OnlySourcesMissing(f) ==
    /\ f.config.kind = "absent" /\ f.io = "ok" /\ f.placeholder.kind # "corrupt"
    /\ \A name \in DOMAIN f.files : f.files[name].kind # "corrupt"

\* ---- C2
\* C2: the run exits with 0 iff the root directory exists, is listed, and
\* every atlas folder builds (also when there is none), and with 1 otherwise;
\* missing source files alone never make the exit code non-zero.
C2_ExitCode ==
    /\ ~Exited => exitCode = -1
    /\ Exited =>
          /\ exitCode \in {0, 1}
          /\ exitCode = 0 <=> (Listed /\ \A n \in Dirs : BuildsOk(n))
          /\ (Listed /\ \A n \in Dirs : OnlySourcesMissing(Content(n))) => exitCode = 0

\* a run over two folders without config.json, source files or placeholder
\* has ended with exit code 0
C2_Witness ==
    /\ Exited /\ exitCode = 0 /\ Cardinality(Dirs) = 2 /\ Len(started) = 2
    /\ \A n \in Dirs : Content(n) = Folder(NoConfig, Absent, NoFiles, "ok")

\* ---- C3
\* the directory names in ascending order of their UTF-8 bytes
NameLess(a, b) == a # b /\ BytesLeq(encode_utf8(a), encode_utf8(b))
ByteOrder ==
    [k \in 1..Cardinality(Dirs) |->
        CHOOSE n \in Dirs : Cardinality({m \in Dirs : NameLess(m, n)}) = k - 1]
FailureOf(n) == build_atlas(Content(n), TRUE)

\* C3: folders are built in ascending UTF-8 byte order ("A" < "Ab" < "b" <
\* a-umlaut) and the run stops at the first failing folder: when it ends, the
\* folders with image and manifest written are exactly those before the first
\* failing one, none after it was started, and the failing one has neither
\* output if it failed on its config, validation or an asset.
C3_FailFastInOrder ==
    \A order \in {ByteOrder} :
        /\ \A j, k \in 1..Len(order) :
              j < k => order[j] # order[k]
                       /\ BytesLeq(encode_utf8(order[j]), encode_utf8(order[k]))
        /\ \A k \in 1..Len(started) : k <= Len(order) /\ started[k] = order[k]
        /\ (Dirs = NameSet /\ Len(started) = 4)
              => started = <<<<65>>, <<65, 98>>, <<98>>, <<228>>>>
        /\ \A failing \in {{k \in 1..Len(order) : ~BuildsOk(order[k])}} :
           \A first \in {IF failing = {} THEN Len(order) + 1 ELSE Least(failing)} :
              /\ Len(started) <= first
              /\ (Exited /\ Listed) =>
                    /\ pngs \cap jsons = {order[k] : k \in 1..(first - 1)}
                    /\ Len(started) = Min(first, Len(order))
                    /\ failing # {} =>
                          /\ order[first] \notin jsons
                          /\ FailureOf(order[first]).exc \in {"ValueError", "RuntimeError"}
                                => order[first] \notin pngs

\* a run over four folders has ended at the third, whose config has a
\* duplicate index: the first two are written, the last was never started
C3_Witness ==
    /\ Exited /\ exitCode = 1 /\ Dirs = NameSet
    /\ started = <<<<65>>, <<65, 98>>, <<98>>>>
    /\ Content(<<98>>).config = TwoSameIndex
    /\ pngs = {<<65>>, <<65, 98>>} /\ jsons = pngs

====
